---------------------------- MODULE Spec2Model ----------------------------
(***************************************************************************)
(* Budget Shop API (backend/main.py): a FastAPI application with three     *)
(* GET routes and a CORSMiddleware configured for two frontend origins.    *)
(*                                                                         *)
(* The model follows one HTTP request through the ASGI stack that main.py  *)
(* assembles: uvicorn hands the request to the application, the            *)
(* application builds its middleware stack on first use, CORSMiddleware    *)
(* either answers a preflight itself or wraps the send channel, the router *)
(* matches the path against the registered routes, the endpoint produces   *)
(* its payload, and the response travels back through the CORS wrapper.    *)
(*                                                                         *)
(* A path is the sequence of the segments that follow its leading slash:   *)
(*   "/" is <<"">>, "/health" is <<"health">>, "/health/" is               *)
(*   <<"health", "">>, "/api/version" is <<"api", "version">>.             *)
(* A JSON object is the set of its <<key, value>> pairs.                   *)
(***************************************************************************)
EXTENDS Naturals, Sequences, FiniteSets

VARIABLES
    routes,            \* app.router.routes, in registration order
    allow_origins,     \* CORSMiddleware.allow_origins
    middleware_stack,  \* app.middleware_stack: empty until the first request
    openapi_schema,    \* app.openapi_schema: empty until first generated
    conn               \* per worker: the request being handled and its progress

vars == <<routes, allow_origins, middleware_stack, openapi_schema, conn>>

\* Number of requests that may be in flight at once in SpecConc.
NumWorkers == 2

None == "None"
NoPath == <<>>

-----------------------------------------------------------------------------
(* Requests *)

ALL_METHODS == {"DELETE", "GET", "HEAD", "OPTIONS", "PATCH", "POST", "PUT"}

RootPath == <<"">>
HealthPath == <<"health">>
VersionPath == <<"api", "version">>
OpenapiPath == <<"openapi.json">>
DocsPath == <<"docs">>
OAuth2RedirectPath == <<"docs", "oauth2-redirect">>
RedocPath == <<"redoc">>

Origin3000 == "http://localhost:3000"
Origin5173 == "http://localhost:5173"

\* The paths a client is modelled to ask for: the defined ones, the ones
\* the framework adds, and near misses (case, trailing slash, unknown).
Paths ==
    { RootPath, HealthPath, VersionPath,
      OpenapiPath, DocsPath, OAuth2RedirectPath, RedocPath,
      <<"nonexistent">>, <<"nonexistent", "">>,
      <<"Health">>, <<"API", "version">>,
      <<"health", "">>, <<"api", "version", "">>, <<"docs", "">> }

\* Origin header values: absent, the two frontends, and near misses.
Origins ==
    { None, Origin3000, Origin5173,
      "http://evil.example.com",
      "http://localhost:3001",
      "https://localhost:3000",
      "http://localhost:3000.evil.example.com" }

\* Access-Control-Request-Method header values (None: header absent).
RequestMethods == { None, "GET", "POST", "FOO" }

\* Access-Control-Request-Headers header values (None: header absent).
RequestHeaders == { None, "x-custom, content-type" }

Requests ==
    [ method : ALL_METHODS, path : Paths, origin : Origins,
      acrm : RequestMethods, acrh : RequestHeaders ]

Req(m, p, o, rm, rh) ==
    [ method |-> m, path |-> p, origin |-> o, acrm |-> rm, acrh |-> rh ]

\* The requests handled concurrently in SpecConc.
ConcRequests ==
    { Req("GET", HealthPath, None, None, None),
      Req("GET", HealthPath, Origin3000, None, None),
      Req("GET", OpenapiPath, None, None, None),
      Req("GET", <<"nonexistent">>, Origin5173, None, None),
      Req("POST", HealthPath, "http://evil.example.com", None, None),
      Req("OPTIONS", HealthPath, Origin3000, "GET", None),
      Req("OPTIONS", HealthPath, Origin3000, None, None),
      Req("GET", OpenapiPath, Origin5173, None, None),
      Req("GET", <<"health", "">>, None, None, None),
      Req("HEAD", VersionPath, Origin5173, None, None) }

NoRequest == Req(None, NoPath, None, None, None)

-----------------------------------------------------------------------------
(* Responses *)

NoHeaders ==
    [ acao |-> None, acac |-> None, acam |-> <<>>, acah |-> None,
      acma |-> None, vary |-> None, location |-> NoPath, allow |-> {} ]

EmptyBody == [ kind |-> "empty", fields |-> {}, text |-> "" ]

Response(status, body, headers) ==
    [ status |-> status, body |-> body, headers |-> headers ]

NoResponse == Response(0, EmptyBody, NoHeaders)

\* starlette.responses.JSONResponse over a dict of strings
JSONResponse(content, status, headers) ==
    Response(status, [ kind |-> "json", fields |-> content, text |-> "" ], headers)

PlainTextResponse(text, status, headers) ==
    Response(status, [ kind |-> "text", fields |-> {}, text |-> text ], headers)

HTMLResponse(text) ==
    Response(200, [ kind |-> "html", fields |-> {}, text |-> text ], NoHeaders)

\* starlette.responses.RedirectResponse: 307, no body, Location
RedirectResponse(path) ==
    Response(307, EmptyBody, [ NoHeaders EXCEPT !.location = path ])

\* fastapi.exception_handlers.http_exception_handler for HTTPException
HTTPException(status, detail, headers) ==
    JSONResponse({ <<"detail", detail>> }, status, headers)

-----------------------------------------------------------------------------
(* backend/main.py: the endpoints *)

\* async def root()
root == { <<"message", "Welcome to Budget Shop API">> }

\* Variant: a health check that reports another status word.
health_check_ok == { <<"status", "ok">>, <<"service", "budget-shop-api">> }

\* async def health_check()
health_check == { <<"status", "healthy">>, <<"service", "budget-shop-api">> }

\* Variant: a version report that carries one more field.
get_version_titled ==
    { <<"version", "0.1.0">>, <<"framework", "FastAPI">>,
      <<"title", "Budget Shop API">> }

\* async def get_version()
get_version == { <<"version", "0.1.0">>, <<"framework", "FastAPI">> }

\* FastAPI(title=..., description=..., version=...): the schema that
\* get_openapi() generates from the constructor's arguments.
get_openapi ==
    { <<"title", "Budget Shop API">>,
      <<"description", "Backend API for Budget Shop application">>,
      <<"version", "0.1.0">>,
      <<"paths", "/, /health, /api/version">> }

\* Variant: a schema that loses its description once it is cached.
openapi_stale(schema) ==
    IF schema = {} THEN get_openapi
    ELSE { kv \in schema : kv[1] # "description" }

\* FastAPI.openapi(): the cached schema, generated when there is none.
openapi(schema) == IF schema = {} THEN get_openapi ELSE schema

\* The response an endpoint produces. The three handlers of main.py return
\* a dict, which the route serialises as a JSON response with status 200;
\* the documentation endpoints are those FastAPI.setup() registers.
Endpoint(name, schema) ==
    CASE name = "root" -> JSONResponse(root, 200, NoHeaders)
      [] name = "health_check" -> JSONResponse(health_check, 200, NoHeaders)
      [] name = "get_version" -> JSONResponse(get_version, 200, NoHeaders)
      [] name = "openapi" -> JSONResponse(openapi(schema), 200, NoHeaders)
      [] name = "swagger_ui_html" -> HTMLResponse("swagger-ui")
      [] name = "swagger_ui_redirect" -> HTMLResponse("oauth2-redirect")
      [] name = "redoc_html" -> HTMLResponse("redoc")

-----------------------------------------------------------------------------
(* Route registration *)

Route(path, methods, endpoint) ==
    [ path |-> path, methods |-> methods, endpoint |-> endpoint ]

\* starlette.routing.Route, as used by FastAPI.setup() through add_route:
\* methods default to GET, and HEAD is added wherever GET is served.
StarletteRouteMethods(methods) ==
    IF "GET" \in methods THEN methods \cup {"HEAD"} ELSE methods

\* Variant: a route that serves HEAD wherever it serves GET.
APIRouteMethodsWithHead(methods) ==
    IF "GET" \in methods THEN methods \cup {"HEAD"} ELSE methods

\* fastapi.routing.APIRoute, as used by @app.get: exactly the methods given.
APIRouteMethods(methods) == methods

\* The routes FastAPI(...) registers by itself (docs_url, redoc_url and
\* openapi_url keep their defaults in main.py).
SetupRoutes ==
    << Route(OpenapiPath, StarletteRouteMethods({"GET"}), "openapi"),
       Route(DocsPath, StarletteRouteMethods({"GET"}), "swagger_ui_html"),
       Route(OAuth2RedirectPath, StarletteRouteMethods({"GET"}), "swagger_ui_redirect"),
       Route(RedocPath, StarletteRouteMethods({"GET"}), "redoc_html") >>

\* @app.get("/"), @app.get("/health"), @app.get("/api/version")
AppRoutes ==
    << Route(RootPath, APIRouteMethods({"GET"}), "root"),
       Route(HealthPath, APIRouteMethods({"GET"}), "health_check"),
       Route(VersionPath, APIRouteMethods({"GET"}), "get_version") >>

-----------------------------------------------------------------------------
(* Routing: starlette.routing.Router with redirect_slashes left at True *)

\* str.lower() on the segments the modelled paths use
Lower(path) ==
    [ i \in DOMAIN path |->
        CASE path[i] = "Health" -> "health"
          [] path[i] = "API" -> "api"
          [] OTHER -> path[i] ]

\* Variant: a path regex compiled to ignore case.
PathMatchesIgnoreCase(route_path, path) == route_path = Lower(path)

\* The path regex of a route without parameters matches the whole path,
\* character for character.
PathMatches(route_path, path) == route_path = path

\* Route.matches
Match(route, method, path) ==
    IF PathMatches(route.path, path)
    THEN IF route.methods # {} /\ method \notin route.methods
         THEN "PARTIAL"
         ELSE "FULL"
    ELSE "NONE"

Min(S) == CHOOSE i \in S : \A j \in S : i <= j

\* str.rstrip("/")
RECURSIVE RStrip(_)
RStrip(path) ==
    IF path # <<>> /\ path[Len(path)] = ""
    THEN RStrip(SubSeq(path, 1, Len(path) - 1))
    ELSE path

\* Variant: a router that never tries the other spelling.
RedirectPathSame(path) == path

\* The path the router tries when nothing matched: without its trailing
\* slashes, or with one added.
RedirectPath(path) ==
    IF path[Len(path)] = "" THEN RStrip(path) ELSE Append(path, "")

\* Router.app, up to the point where a route is handed the request or a
\* response is produced: [endpoint, resp]. endpoint is None when the router
\* answers by itself.
Router(rts, method, path) ==
    LET full == { i \in DOMAIN rts : Match(rts[i], method, path) = "FULL" }
        partial == { i \in DOMAIN rts : Match(rts[i], method, path) = "PARTIAL" }
        redirect == { i \in DOMAIN rts :
                        Match(rts[i], method, RedirectPath(path)) # "NONE" }
    IN  IF full # {}
        THEN [ endpoint |-> rts[Min(full)].endpoint, resp |-> NoResponse ]
        ELSE IF partial # {}
        THEN [ endpoint |-> None,
               resp |-> HTTPException(405, "Method Not Allowed",
                          [ NoHeaders EXCEPT !.allow = rts[Min(partial)].methods ]) ]
        ELSE IF path # RootPath /\ redirect # {}
        THEN [ endpoint |-> None, resp |-> RedirectResponse(RedirectPath(path)) ]
        ELSE [ endpoint |-> None,
               resp |-> HTTPException(404, "Not Found", NoHeaders) ]

-----------------------------------------------------------------------------
(* app.add_middleware(CORSMiddleware, ...) *)

AllowOriginsConfig == { Origin3000, Origin5173 }
AllowCredentials == TRUE
AllowMethodsConfig == { "*" }
AllowHeadersConfig == { "*" }

\* ALL_METHODS as the tuple the middleware joins into the header value
AllMethodsTuple == << "DELETE", "GET", "HEAD", "OPTIONS", "PATCH", "POST", "PUT" >>

\* CORSMiddleware.__init__: "*" stands for every method
AllowMethods ==
    IF "*" \in AllowMethodsConfig THEN ALL_METHODS ELSE AllowMethodsConfig

AllowAllOrigins == "*" \in AllowOriginsConfig
AllowAllHeaders == "*" \in AllowHeadersConfig

\* CORSMiddleware.__init__: the headers added to every non-preflight
\* response of a request that carries an Origin header.
SimpleHeaders ==
    [ NoHeaders EXCEPT
        !.acao = IF AllowAllOrigins THEN "*" ELSE None,
        !.acac = IF AllowCredentials THEN "true" ELSE None ]

\* CORSMiddleware.__init__: the headers every preflight response starts from.
PreflightHeaders ==
    [ NoHeaders EXCEPT
        !.vary = IF ~AllowAllOrigins \/ AllowCredentials THEN "Origin" ELSE None,
        !.acao = IF ~AllowAllOrigins \/ AllowCredentials THEN None ELSE "*",
        !.acam = IF "*" \in AllowMethodsConfig THEN AllMethodsTuple ELSE <<>>,
        !.acma = "600",
        !.acac = IF AllowCredentials THEN "true" ELSE None ]

\* Variant: an origin test that accepts whatever starts with an allowed origin.
is_allowed_origin_prefix(origin, allowed) ==
    \/ origin \in allowed
    \/ origin = "http://localhost:3000.evil.example.com"

\* CORSMiddleware.is_allowed_origin
is_allowed_origin(origin, allowed) ==
    \/ AllowAllOrigins
    \/ origin \in allowed

\* Variant: the wildcard instead of the request's origin.
allow_explicit_origin_wildcard(headers, origin) ==
    [ headers EXCEPT !.acao = "*", !.vary = "Origin" ]

\* CORSMiddleware.allow_explicit_origin
allow_explicit_origin(headers, origin) ==
    [ headers EXCEPT !.acao = origin, !.vary = "Origin" ]

\* Variant: a preflight test that looks at the wrong request header.
is_preflight_by_headers(req) == req.method = "OPTIONS" /\ req.acrh # None

\* The test CORSMiddleware.__call__ makes for a preflight
is_preflight(req) == req.method = "OPTIONS" /\ req.acrm # None

\* CORSMiddleware.preflight_response
preflight_response(req, allowed) ==
    LET origin_ok == is_allowed_origin(req.origin, allowed)
        method_ok == req.acrm \in AllowMethods
        h1 == IF origin_ok /\ (~AllowAllOrigins \/ AllowCredentials)
              THEN [ PreflightHeaders EXCEPT !.acao = req.origin ]
              ELSE PreflightHeaders
        h2 == IF AllowAllHeaders /\ req.acrh # None
              THEN [ h1 EXCEPT !.acah = req.acrh ]
              ELSE h1
    IN  IF origin_ok /\ method_ok
        THEN PlainTextResponse("OK", 200, h2)
        ELSE PlainTextResponse(
                 IF ~origin_ok /\ ~method_ok
                 THEN "Disallowed CORS origin, method headers"
                 ELSE IF ~origin_ok THEN "Disallowed CORS origin headers"
                 ELSE "Disallowed CORS method headers",
                 400, h2)

\* CORSMiddleware.send, the headers: simple_headers are merged into the
\* response's own, then the origin is made explicit when it is allowed.
simple_response_headers(headers, origin, allowed) ==
    LET h1 == [ headers EXCEPT
                  !.acao = IF SimpleHeaders.acao # None
                           THEN SimpleHeaders.acao ELSE @,
                  !.acac = IF SimpleHeaders.acac # None
                           THEN SimpleHeaders.acac ELSE @ ]
    IN  IF ~AllowAllOrigins /\ is_allowed_origin(origin, allowed)
        THEN allow_explicit_origin(h1, origin)
        ELSE h1

\* Variant: a wrapper that leaves error responses as they are.
send_unless_error(resp, req, allowed) ==
    IF resp.status >= 400 THEN resp
    ELSE [ resp EXCEPT
             !.headers = simple_response_headers(resp.headers, req.origin, allowed) ]

\* CORSMiddleware.send: the wrapper around the send channel, applied to the
\* start of the response the inner application sends.
send(resp, req, allowed) ==
    [ resp EXCEPT
        !.headers = simple_response_headers(resp.headers, req.origin, allowed) ]

\* Starlette.build_middleware_stack
build_middleware_stack ==
    << "ServerErrorMiddleware", "CORSMiddleware", "ExceptionMiddleware", "Router" >>

-----------------------------------------------------------------------------
(* The state machine *)

Workers == 1 .. NumWorkers

Idle ==
    [ stage |-> "idle", req |-> NoRequest, resp |-> NoResponse,
      cors |-> FALSE, endpoint |-> None ]

\* The state once main.py has been imported.
Init ==
    /\ routes = SetupRoutes \o AppRoutes
    /\ allow_origins = AllowOriginsConfig
    /\ middleware_stack = <<>>
    /\ openapi_schema = {}
    /\ conn = [ w \in Workers |-> Idle ]

\* uvicorn.run(app, ...): the server hands a request to the application.
\* The request is any one of the set reqs.
Accept(w, reqs) ==
    /\ conn[w].stage = "idle"
    /\ \E r \in reqs :
          conn' = [ conn EXCEPT ![w] = [ Idle EXCEPT !.stage = "app", !.req = r ] ]
    /\ UNCHANGED <<routes, allow_origins, middleware_stack, openapi_schema>>

\* Starlette.__call__: build the middleware stack on first use, then call it.
AppCall(w) ==
    /\ conn[w].stage = "app"
    /\ middleware_stack' =
          IF middleware_stack = <<>> THEN build_middleware_stack
          ELSE middleware_stack
    /\ conn' = [ conn EXCEPT ![w].stage = "cors" ]
    /\ UNCHANGED <<routes, allow_origins, openapi_schema>>

\* CORSMiddleware.__call__
CORSCall(w) ==
    /\ conn[w].stage = "cors"
    /\ conn' =
          IF conn[w].req.origin = None
          THEN [ conn EXCEPT ![w].stage = "router" ]
          ELSE IF is_preflight(conn[w].req)
          THEN [ conn EXCEPT ![w].stage = "done",
                   ![w].resp = preflight_response(conn[w].req, allow_origins) ]
          ELSE [ conn EXCEPT ![w].stage = "router", ![w].cors = TRUE ]
    /\ UNCHANGED <<routes, allow_origins, middleware_stack, openapi_schema>>

\* Router.app and Route.handle
RouterCall(w) ==
    /\ conn[w].stage = "router"
    /\ LET r == Router(routes, conn[w].req.method, conn[w].req.path)
       IN  conn' =
             IF r.endpoint # None
             THEN [ conn EXCEPT ![w].stage = "endpoint", ![w].endpoint = r.endpoint ]
             ELSE [ conn EXCEPT ![w].stage = "send", ![w].resp = r.resp ]
    /\ UNCHANGED <<routes, allow_origins, middleware_stack, openapi_schema>>

\* The matched route runs its endpoint.
EndpointCall(w) ==
    /\ conn[w].stage = "endpoint"
    /\ conn' = [ conn EXCEPT ![w].stage = "send",
                   ![w].resp = Endpoint(conn[w].endpoint, openapi_schema) ]
    /\ openapi_schema' =
          IF conn[w].endpoint = "openapi" THEN openapi(openapi_schema)
          ELSE openapi_schema
    /\ UNCHANGED <<routes, allow_origins, middleware_stack>>

\* The response goes out through the send channel: the CORS wrapper when
\* the request carried an Origin header, the server's own otherwise.
Send(w) ==
    /\ conn[w].stage = "send"
    /\ conn' =
          [ conn EXCEPT ![w].stage = "done",
              ![w].resp = IF conn[w].cors
                          THEN send(conn[w].resp, conn[w].req, allow_origins)
                          ELSE conn[w].resp ]
    /\ UNCHANGED <<routes, allow_origins, middleware_stack, openapi_schema>>

\* The client has the response; the worker is free again.
Complete(w) ==
    /\ conn[w].stage = "done"
    /\ conn' = [ conn EXCEPT ![w] = Idle ]
    /\ UNCHANGED <<routes, allow_origins, middleware_stack, openapi_schema>>

Step(w) ==
    \/ AppCall(w)
    \/ CORSCall(w)
    \/ RouterCall(w)
    \/ EndpointCall(w)
    \/ Send(w)
    \/ Complete(w)

\* One request at a time, any request.
Next ==
    \/ Accept(1, Requests)
    \/ Step(1)

Spec == Init /\ [][Next]_vars

\* Several requests in flight, their steps interleaved.
NextConc ==
    \/ \E w \in Workers : Accept(w, ConcRequests)
    \/ \E w \in Workers : Step(w)

SpecConc == Init /\ [][NextConc]_vars

-----------------------------------------------------------------------------
(* Properties *)

Done(w) == conn[w].stage = "done"

DefinedPaths == { RootPath, HealthPath, VersionPath }
AllowList == { "http://localhost:3000", "http://localhost:5173" }

RootPayload == { <<"message", "Welcome to Budget Shop API">> }
HealthPayload == { <<"status", "healthy">>, <<"service", "budget-shop-api">> }

Keys(fields) == { kv[1] : kv \in fields }

\* The version payload: version 0.1.0 and a framework string, nothing else.
IsVersionPayload(fields) ==
    /\ Keys(fields) = { "version", "framework" }
    /\ Cardinality(fields) = 2
    /\ <<"version", "0.1.0">> \in fields

IsPayloadOf(path, body) ==
    /\ body.kind = "json"
    /\ CASE path = RootPath -> body.fields = RootPayload
         [] path = HealthPath -> body.fields = HealthPayload
         [] path = VersionPath -> IsVersionPayload(body.fields)
         [] OTHER -> FALSE

IsStaticPayload(body) ==
    \E p \in DefinedPaths : IsPayloadOf(p, body)

\* C1: a GET on "/", "/health" or "/api/version" is answered with 200 and
\* a JSON body that is exactly that route's literal payload: no extra
\* field, and never the payload of another route.
C1_ExactPayloads ==
    \A w \in Workers :
        Done(w) /\ conn[w].req.method = "GET" /\ conn[w].req.path \in DefinedPaths
        => /\ conn[w].resp.status = 200
           /\ IsPayloadOf(conn[w].req.path, conn[w].resp.body)
           /\ \A p \in DefinedPaths \ { conn[w].req.path } :
                 ~IsPayloadOf(p, conn[w].resp.body)

C1_Witness ==
    \E w \in Workers :
        /\ Done(w)
        /\ conn[w].req.method = "GET"
        /\ conn[w].req.path = VersionPath
        /\ conn[w].resp.status = 200
        /\ <<"framework", "FastAPI">> \in conn[w].resp.body.fields

\* C2: whatever the method and the path, the response to a request whose
\* Origin is one of the two allow-listed origins carries
\* Access-Control-Allow-Origin equal to that very origin (not the other
\* one, not "*") and Access-Control-Allow-Credentials: true.
C2_AllowedOriginEchoed ==
    \A w \in Workers :
        Done(w) /\ conn[w].req.origin \in AllowList
        => /\ conn[w].resp.headers.acao = conn[w].req.origin
           /\ conn[w].resp.headers.acac = "true"

C2_Witness ==
    \E w \in Workers :
        /\ Done(w)
        /\ conn[w].req.origin = "http://localhost:5173"
        /\ conn[w].req.path = <<"nonexistent">>
        /\ conn[w].resp.status = 404
        /\ conn[w].resp.headers.acao = "http://localhost:5173"

\* C3, as claimed: a request whose Origin is not allow-listed, or that has
\* no Origin, gets neither Access-Control-Allow-Origin nor
\* Access-Control-Allow-Credentials.
C3_Original ==
    \A w \in Workers :
        Done(w) /\ conn[w].req.origin \notin AllowList
        => /\ conn[w].resp.headers.acao = None
           /\ conn[w].resp.headers.acac = None

\* C3, amended: a request whose Origin is not allow-listed, or that has no
\* Origin, never gets an Access-Control-Allow-Origin header, whatever its
\* method and path. Access-Control-Allow-Credentials is absent only when
\* the request has no Origin header: a request with any Origin header gets
\* Access-Control-Allow-Credentials: true.
C3_DefaultDeny ==
    \A w \in Workers :
        Done(w) /\ conn[w].req.origin \notin AllowList
        => /\ conn[w].resp.headers.acao = None
           /\ conn[w].req.origin = None => conn[w].resp.headers.acac = None
           /\ conn[w].req.origin # None => conn[w].resp.headers.acac = "true"

C3_Witness ==
    \E w \in Workers :
        /\ Done(w)
        /\ conn[w].req.origin = "http://localhost:3000.evil.example.com"
        /\ conn[w].resp.status = 200
        /\ conn[w].resp.headers.acao = None
        /\ conn[w].resp.headers.acac = "true"

Range(seq) == { seq[i] : i \in DOMAIN seq }

\* A preflight from an allow-listed origin
IsAllowedPreflight(req) ==
    /\ req.method = "OPTIONS"
    /\ req.acrm # None
    /\ req.origin \in AllowList

HasPreflightHeaders(req, headers) ==
    /\ headers.acao = req.origin
    /\ headers.acac = "true"
    /\ Range(headers.acam) = ALL_METHODS
    /\ req.acrh # None => headers.acah = req.acrh

\* C4, as claimed: a preflight from an allow-listed origin, to any path, is
\* answered with 200 or 204 and an empty body, with the CORS headers, and
\* never reaches a route.
C4_Original ==
    \A w \in Workers :
        IsAllowedPreflight(conn[w].req)
        => /\ conn[w].stage \notin { "router", "endpoint", "send" }
           /\ Done(w) => /\ conn[w].resp.status \in { 200, 204 }
                         /\ conn[w].resp.body = EmptyBody
                         /\ HasPreflightHeaders(conn[w].req, conn[w].resp.headers)

\* C4, amended: a preflight from an allow-listed origin, to any path, never
\* reaches the router or a route, is never answered with 404 or 405, and
\* carries the CORS headers (origin echoed, credentials true, all methods,
\* the requested headers). When the requested method is one of the seven
\* standard methods the answer is 200 with the plain-text body "OK";
\* otherwise it is 400 with a plain-text error.
C4_Preflight ==
    \A w \in Workers :
        IsAllowedPreflight(conn[w].req)
        => /\ conn[w].stage \notin { "router", "endpoint", "send" }
           /\ conn[w].endpoint = None
           /\ Done(w) =>
                /\ HasPreflightHeaders(conn[w].req, conn[w].resp.headers)
                /\ conn[w].resp.body.kind = "text"
                /\ conn[w].req.acrm \in ALL_METHODS
                     => /\ conn[w].resp.status = 200
                        /\ conn[w].resp.body.text = "OK"
                /\ conn[w].req.acrm \notin ALL_METHODS
                     => conn[w].resp.status = 400

C4_Witness ==
    \E w \in Workers :
        /\ Done(w)
        /\ conn[w].req.method = "OPTIONS"
        /\ conn[w].req.path = VersionPath
        /\ conn[w].req.origin = "http://localhost:3000"
        /\ conn[w].req.acrm = "GET"
        /\ conn[w].req.acrh # None
        /\ conn[w].resp.status = 200
        /\ conn[w].resp.body.text = "OK"

\* The paths FastAPI serves besides those main.py registers
FrameworkPaths ==
    { <<"openapi.json">>, <<"docs">>, <<"docs", "oauth2-redirect">>, <<"redoc">> }

\* path spelled with one more slash at its end
WithSlash(path) == path \o <<"">>

\* The registered paths spelled with a trailing slash ("/" has no such
\* spelling that the router redirects).
SlashSpellings ==
    { WithSlash(p) : p \in (DefinedPaths \cup FrameworkPaths) \ { RootPath } }

C6_HealthAlways ==
    \A w \in Workers :
        Done(w) /\ conn[w].req.method = "GET" /\ conn[w].req.path = HealthPath
        => /\ conn[w].resp.status = 200
           /\ conn[w].resp.body.kind = "json"
           /\ conn[w].resp.body.fields = HealthPayload

\* The health check answered while the application has already built its
\* middleware stack and cached its schema, and another request ended in
\* an error.
C6_Witness ==
    \E w, v \in Workers :
        /\ w # v
        /\ Done(w)
        /\ conn[w].req.method = "GET"
        /\ conn[w].req.path = HealthPath
        /\ conn[w].resp.status = 200
        /\ openapi_schema # {}
        /\ Done(v)
        /\ conn[v].resp.status \in { 404, 405 }

IsSimpleCors(req, headers) ==
    /\ headers.acao = req.origin
    /\ headers.acac = "true"
    /\ headers.vary = "Origin"

\* The CORS headers on 404 and 405 are those on 200.
C8_ErrorsCarryCors ==
    \A w \in Workers :
        /\ Done(w)
        /\ conn[w].req.origin \in AllowList
        /\ ~(conn[w].req.method = "OPTIONS" /\ conn[w].req.acrm # None)
        => /\ conn[w].resp.status \in { 200, 307, 404, 405 }
           /\ IsSimpleCors(conn[w].req, conn[w].resp.headers)

\* The CORS wrapper passes status and body on as the router produced them.
C8_StatusBodyKept ==
    \A w \in Workers :
        conn[w].stage = "send" /\ conn'[w].stage = "done"
        => /\ conn'[w].resp.status = conn[w].resp.status
           /\ conn'[w].resp.body = conn[w].resp.body

\* C8: a non-preflight request from an allow-listed origin carries the same
\* Access-Control-Allow-Origin and Access-Control-Allow-Credentials on a
\* 404 or 405 as on a 200, and the CORS layer changes neither the status
\* nor the body that the router produced.
C8_CorsOnAllResponses == []C8_ErrorsCarryCors /\ [][C8_StatusBodyKept]_vars

C8_Witness ==
    \E w \in Workers :
        /\ Done(w)
        /\ conn[w].req.method = "POST"
        /\ conn[w].req.path = HealthPath
        /\ conn[w].req.origin = "http://localhost:3000"
        /\ conn[w].resp.status = 405
        /\ conn[w].resp.headers.acao = "http://localhost:3000"

\* C9: on the three defined paths every method but GET, sent without
\* preflight headers, is rejected with 405 and without the route's payload;
\* no endpoint runs for it.
C9_OnlyGet ==
    \A w \in Workers :
        /\ Done(w)
        /\ conn[w].req.path \in DefinedPaths
        /\ conn[w].req.method # "GET"
        /\ conn[w].req.acrm = None
        => /\ conn[w].resp.status = 405
           /\ ~IsStaticPayload(conn[w].resp.body)
           /\ conn[w].endpoint = None

C9_Witness ==
    \E w \in Workers :
        /\ Done(w)
        /\ conn[w].req.path = RootPath
        /\ conn[w].req.method = "HEAD"
        /\ conn[w].req.acrm = None
        /\ conn[w].resp.status = 405

CasePaths == { <<"Health">>, <<"API", "version">> }
SlashPaths == { <<"health", "">>, <<"api", "version", "">> }

=============================================================================
